---- MODULE Spec2Model ----
(***************************************************************************)
(* Model of Streamlit/manga_support_ai/llm_workflow.py: the windowing      *)
(* (chunk_for_llm), the fallback splitter (_split_fallback_chunk), the     *)
(* offset reconciler (_detect_global_span), the cut assembler              *)
(* (llm_cut_and_label_with_params), the relationship reducer               *)
(* (generate_character_graph_dot), the brief lookup                        *)
(* (build_character_brief), the length policy (derive_cut_parameters) and  *)
(* the two parsers (_safe_json_loads, _safe_json_object); and of the name  *)
(* canonicalisation of models.py (_build_name_map, _normalize_speaker).    *)
(*                                                                         *)
(* A text is a sequence of characters.  The characters the code treats     *)
(* specially are named: LF is "\n", CR is "\r", SP is a blank, KUTEN is    *)
(* the full stop "。", TOUTEN is the comma "、"; "a" stands for any other   *)
(* character.                                                              *)
(***************************************************************************)
EXTENDS Integers, Sequences, FiniteSets, TLC

VARIABLES
    chunker,      \* frame of one call of chunk_for_llm
    splitter,     \* frame of one call of _split_fallback_chunk
    full_text,    \* llm_cut_and_label_with_params: argument
    window,       \* llm_cut_and_label_with_params: argument
    overlap,      \* llm_cut_and_label_with_params: argument
    chunk_target, \* llm_cut_and_label_with_params: argument
    chunks,       \* llm_cut_and_label_with_params: chunk_for_llm's result
    idx,          \* llm_cut_and_label_with_params: windows processed so far
    panels,       \* llm_cut_and_label_with_params: the Cut list
    cut_counter,  \* llm_cut_and_label_with_params: next identifier number
    calls,        \* what the oracle answered for each processed window
    st_error,     \* TRUE once st.error reported the authentication failure
    pc,           \* position of llm_cut_and_label_with_params
    reconciler,   \* frame of one call of _detect_global_span
    grapher,      \* frame of one call of generate_character_graph_dot
    briefer,      \* frame of one call of build_character_brief
    deriver,      \* frame of one call of derive_cut_parameters
    parser,       \* frame of one call of _safe_json_loads or _safe_json_object
    normalizer    \* frame of one call of _normalize_speaker

vars == <<chunker, splitter, full_text, window, overlap, chunk_target,
          chunks, idx, panels, cut_counter, calls, st_error, pc,
          reconciler, grapher, briefer, deriver, parser, normalizer>>

pipelineVars == <<full_text, window, overlap, chunk_target, chunks, idx,
                  panels, cut_counter, calls, st_error, pc>>

----------------------------------------------------------------------------
(* Bounds of the model *)

MaxLen == 4        \* longest text given to chunk_for_llm / the splitter alone
MaxWindow == 4     \* largest window size given to chunk_for_llm alone
MaxCut == 3        \* largest cut_min / cut_max given to the splitter alone
MaxDocLen == 2     \* longest enumerated text given to the pipeline
MaxDocWindow == 3  \* largest window size used with the enumerated texts
MaxRecords == 2    \* most records the oracle returns in one run of the pipeline
LongLen == 258     \* length of the long texts given to the pipeline
LongWindow == 130  \* window size used with the long texts
LongOverlap == 2   \* overlap used with the long texts
FarOffset == 1000  \* an offset far beyond every text of the model
MaxOffset == 8     \* largest offset given to _detect_global_span alone
MaxStart == 3      \* largest window start given to _detect_global_span alone
MaxSize == 4       \* largest window size given to _detect_global_span alone
GraphLen == 2001   \* length of the long text given to generate_character_graph_dot
MaxMentions == 2   \* most character and relationship records in one run of it
MaxCuts == 3       \* longest Cut list given to build_character_brief
MaxLimit == 2      \* largest limit given to build_character_brief
MaxTarget == 200   \* largest target given to derive_cut_parameters alone
LowTarget == 20    \* its smallest target is -LowTarget
LongRecord == 241  \* length of the longest text of an oracle record
MaxSpeakerLen == 2 \* longest speaker given to _normalize_speaker alone
MaxRoster == 2     \* most names of the roster given to _build_name_map

----------------------------------------------------------------------------
(* Characters and Python string primitives *)

LF == "LF"
CR == "CR"
SP == "SP"
KUTEN == "KUTEN"
TOUTEN == "TOUTEN"

Chars == {"a", SP, LF, CR, KUTEN, TOUTEN}

Whitespace == {SP, LF, CR}

TextsOver(alphabet, n) == UNION {[1..k -> alphabet] : k \in 0..n}

Min(a, b) == IF a < b THEN a ELSE b

Max(a, b) == IF a > b THEN a ELSE b

MaxOf(S) == CHOOSE x \in S : \A y \in S : y <= x

\* s[a:b] for 0 <= a, 0 <= b (b is clamped to len(s), a > b gives "")
Slice(s, a, b) == SubSeq(s, a + 1, Min(b, Len(s)))

\* s.replace("\r\n", "\n").replace("\r", "\n"), computed by halving the text
\* at a place that separates no CR from the LF after it
RECURSIVE Normalize(_)
Normalize(s) ==
    IF s = <<>> THEN <<>>
    ELSE IF Len(s) = 1 THEN (IF s[1] = CR THEN <<LF>> ELSE s)
    ELSE IF Len(s) = 2 /\ s[1] = CR /\ s[2] = LF THEN <<LF>>
    ELSE LET half == Len(s) \div 2
             cut == IF s[half] = CR /\ s[half + 1] = LF THEN half + 1 ELSE half
         IN Normalize(SubSeq(s, 1, cut)) \o Normalize(SubSeq(s, cut + 1, Len(s)))

\* the greatest element of the set S of integers within lo..hi, -1 when none
RECURSIVE LastIn(_, _, _)
LastIn(S, lo, hi) ==
    IF lo > hi THEN -1
    ELSE IF lo = hi THEN (IF lo \in S THEN lo ELSE -1)
    ELSE LET mid == (lo + hi) \div 2
             upper == LastIn(S, mid + 1, hi)
         IN IF upper # -1 THEN upper ELSE LastIn(S, lo, mid)

\* the least element of the set S of integers within lo..hi, -1 when none
RECURSIVE FirstIn(_, _, _)
FirstIn(S, lo, hi) ==
    IF lo > hi THEN -1
    ELSE IF lo = hi THEN (IF lo \in S THEN lo ELSE -1)
    ELSE LET mid == (lo + hi) \div 2
             lower == FirstIn(S, lo, mid)
         IN IF lower # -1 THEN lower ELSE FirstIn(S, mid + 1, hi)

\* s.rfind(c) for a one-character c: 0-based index, -1 when absent
RFind(s, c) == LastIn({p \in 0..(Len(s) - 1) : s[p + 1] = c}, 0, Len(s) - 1)

\* s.rfind("\n\n")
RFindParagraph(s) ==
    LastIn({p \in 0..(Len(s) - 2) : s[p + 1] = LF /\ s[p + 2] = LF}, 0, Len(s) - 2)

\* len(s) - len(s.lstrip())
Leading(s) ==
    LET first == FirstIn({p \in 0..(Len(s) - 1) : s[p + 1] \notin Whitespace}, 0, Len(s) - 1)
    IN IF first = -1 THEN Len(s) ELSE first

\* len(s.rstrip())
TrailingEnd(s) ==
    LastIn({p \in 0..(Len(s) - 1) : s[p + 1] \notin Whitespace}, 0, Len(s) - 1) + 1

\* s.strip()
Strip(s) == SubSeq(s, Leading(s) + 1, TrailingEnd(s))

\* the characters of names, labels and descriptions: letters in both cases
\* and the blank
NameChars == {"A", "a", "B", "b", SP}

\* c.lower() for one character
LowerChar(c) == IF c = "A" THEN "a" ELSE IF c = "B" THEN "b" ELSE c

\* s.lower()
Lower(s) == [k \in 1..Len(s) |-> LowerChar(s[k])]

\* the literal "unknown", one symbol of a text
Unknown == <<"unknown">>

----------------------------------------------------------------------------
(* chunk_for_llm *)

\* end = min(i + window, n); brk = t[i:end].rfind("\n\n");
\* if brk >= int(window * 0.5): end = i + brk
ChunkEnd(t, w, i) ==
    LET end == Min(i + w, Len(t))
        brk == RFindParagraph(Slice(t, i, end))
    IN IF brk >= w \div 2 THEN i + brk ELSE end

\* next_i = max(i + 1, end - overlap)
ChunkNextStart(i, end, ov) == Max(i + 1, end - ov)

\* a variant of ChunkLoop that gives one window whatever the text
ChunkLoopOneWindow(t, w, ov, i, cuts) == <<[start |-> 0, end |-> Len(t)]>>

\* the while loop, from offset i with the windows cuts collected so far
RECURSIVE ChunkLoop(_, _, _, _, _)
ChunkLoop(t, w, ov, i, cuts) ==
    IF ~(i < Len(t)) THEN cuts
    ELSE LET end == ChunkEnd(t, w, i)
             more == Append(cuts, [start |-> i, end |-> end])
         IN IF end >= Len(t) THEN more
            ELSE ChunkLoop(t, w, ov, ChunkNextStart(i, end, ov), more)

chunk_for_llm(text, w, ov) == ChunkLoop(Normalize(text), w, ov, 0, <<>>)

----------------------------------------------------------------------------
(* chunk_for_llm run one loop iteration at a time *)

IdleChunker == [pc |-> "idle"]

IdleSplitter == [pc |-> "idle"]

IdleReconciler == [pc |-> "idle"]

IdleGrapher == [pc |-> "idle"]

IdleBriefer == [pc |-> "idle"]

IdleDeriver == [pc |-> "idle"]

IdleParser == [pc |-> "idle"]

IdleNormalizer == [pc |-> "idle"]

auxVars == <<deriver, parser, normalizer>>

AuxIdle == deriver = IdleDeriver /\ parser = IdleParser /\ normalizer = IdleNormalizer

ChunkInit ==
    /\ \E text \in TextsOver(Chars, MaxLen), w \in 2..MaxWindow :
         \E ov \in 1..(w - 1) :
            chunker = [pc |-> "loop", text |-> text, window |-> w, overlap |-> ov,
                       t |-> Normalize(text), i |-> 0, cuts |-> <<>>]
    /\ splitter = IdleSplitter
    /\ full_text = <<>> /\ window = 0 /\ overlap = 0 /\ chunk_target = 0
    /\ chunks = <<>> /\ idx = 0 /\ panels = <<>> /\ cut_counter = 1
    /\ calls = <<>> /\ st_error = FALSE /\ pc = "idle"
    /\ AuxIdle
    /\ reconciler = IdleReconciler /\ grapher = IdleGrapher /\ briefer = IdleBriefer

\* one iteration of the while loop that does not leave it
ChunkIterate ==
    /\ chunker.pc = "loop"
    /\ chunker.i < Len(chunker.t)
    /\ LET end == ChunkEnd(chunker.t, chunker.window, chunker.i)
       IN /\ end < Len(chunker.t)
          /\ chunker' = [chunker EXCEPT
                 !.cuts = Append(@, [start |-> chunker.i, end |-> end]),
                 !.i = ChunkNextStart(chunker.i, end, chunker.overlap)]
    /\ UNCHANGED <<auxVars, splitter, pipelineVars, reconciler, grapher, briefer>>

\* the loop condition fails, or the iteration that ends with break: return cuts
ChunkReturn ==
    /\ chunker.pc = "loop"
    /\ \/ /\ ~(chunker.i < Len(chunker.t))
          /\ chunker' = [chunker EXCEPT !.pc = "done"]
       \/ /\ chunker.i < Len(chunker.t)
          /\ LET end == ChunkEnd(chunker.t, chunker.window, chunker.i)
             IN /\ end >= Len(chunker.t)
                /\ chunker' = [chunker EXCEPT
                       !.cuts = Append(@, [start |-> chunker.i, end |-> end]),
                       !.pc = "done"]
    /\ UNCHANGED <<auxVars, splitter, pipelineVars, reconciler, grapher, briefer>>

ChunkNext == ChunkIterate \/ ChunkReturn

ChunkSpec == ChunkInit /\ [][ChunkNext]_vars /\ WF_vars(ChunkNext)

----------------------------------------------------------------------------
(* _split_fallback_chunk *)

\* tentative_end = min(cursor + cut_max, length)
TentativeEnd(normalized, cursor, cut_max) == Min(cursor + cut_max, Len(normalized))

\* candidates = [window.rfind("\n\n"), window.rfind("。"), window.rfind("、")]
\* valid_candidates = [c for c in candidates if c >= cut_min - 1]
\* a variant of ValidCandidates whose threshold is cut_min
ValidCandidatesStrict(win, cut_min) ==
    {c \in {RFindParagraph(win), RFind(win, KUTEN), RFind(win, TOUTEN)} : c >= cut_min}

ValidCandidates(win, cut_min) ==
    {c \in {RFindParagraph(win), RFind(win, KUTEN), RFind(win, TOUTEN)} : c >= cut_min - 1}

\* split_point of one iteration
SplitPoint(normalized, cursor, cut_min, cut_max) ==
    LET tentative_end == TentativeEnd(normalized, cursor, cut_max)
        valid_candidates == ValidCandidates(Slice(normalized, cursor, tentative_end), cut_min)
    IN IF tentative_end < Len(normalized) /\ valid_candidates # {}
       THEN cursor + MaxOf(valid_candidates) + 1
       ELSE tentative_end

\* start_offset = cursor + leading
StartOffset(cursor, segment_raw) == cursor + Leading(segment_raw)

\* a variant of EndOffset that forgets the leading whitespace
EndOffsetNoLeading(cursor, segment_raw) == cursor + Len(Strip(segment_raw))

\* end_offset = cursor + trailing_end
EndOffset(cursor, segment_raw) == cursor + TrailingEnd(segment_raw)

\* the spans after the iteration at cursor that splits at split_point
SpansAfter(normalized, cursor, split_point, spans) ==
    LET segment_raw == Slice(normalized, cursor, split_point)
        segment == Strip(segment_raw)
    IN IF segment # <<>>
       THEN Append(spans, <<StartOffset(cursor, segment_raw),
                            EndOffset(cursor, segment_raw), segment>>)
       ELSE spans

\* a variant of NextCursor without the guard against an empty iteration
NextCursorUnguarded(cursor, split_point, tentative_end) == split_point

\* cursor = split_point if split_point > cursor else tentative_end
NextCursor(cursor, split_point, tentative_end) ==
    IF split_point > cursor THEN split_point ELSE tentative_end

\* the while loop from cursor; cut_max >= 1 makes every iteration advance
RECURSIVE SplitLoop(_, _, _, _, _)
SplitLoop(normalized, cut_min, cut_max, cursor, spans) ==
    IF ~(cursor < Len(normalized)) THEN spans
    ELSE LET split_point == SplitPoint(normalized, cursor, cut_min, cut_max)
         IN SplitLoop(normalized, cut_min, cut_max,
                      NextCursor(cursor, split_point,
                                 TentativeEnd(normalized, cursor, cut_max)),
                      SpansAfter(normalized, cursor, split_point, spans))

split_fallback_chunk(text, cut_min, cut_max) ==
    SplitLoop(Normalize(text), cut_min, cut_max, 0, <<>>)

----------------------------------------------------------------------------
(* _split_fallback_chunk run one loop iteration at a time *)

SplitInit ==
    /\ \E text \in TextsOver(Chars, MaxLen), cmin \in (-1)..MaxCut, cmax \in 0..MaxCut :
          splitter = [pc |-> "loop", text |-> text, cut_min |-> cmin, cut_max |-> cmax,
                      normalized |-> Normalize(text), cursor |-> 0, spans |-> <<>>,
                      iterations |-> 0]
    /\ chunker = IdleChunker
    /\ full_text = <<>> /\ window = 0 /\ overlap = 0 /\ chunk_target = 0
    /\ chunks = <<>> /\ idx = 0 /\ panels = <<>> /\ cut_counter = 1
    /\ calls = <<>> /\ st_error = FALSE /\ pc = "idle"
    /\ AuxIdle
    /\ reconciler = IdleReconciler /\ grapher = IdleGrapher /\ briefer = IdleBriefer

\* one iteration of the while loop; iterations counts them, and the model
\* follows a call no further than one iteration more than the text has characters
SplitIterate ==
    /\ splitter.pc = "loop"
    /\ splitter.cursor < Len(splitter.normalized)
    /\ splitter.iterations <= Len(splitter.normalized)
    /\ LET split_point == SplitPoint(splitter.normalized, splitter.cursor,
                                     splitter.cut_min, splitter.cut_max)
       IN splitter' = [splitter EXCEPT
              !.iterations = @ + 1,
              !.spans = SpansAfter(splitter.normalized, splitter.cursor, split_point, @),
              !.cursor = NextCursor(@, split_point,
                                    TentativeEnd(splitter.normalized, splitter.cursor,
                                                 splitter.cut_max))]
    /\ UNCHANGED <<auxVars, chunker, pipelineVars, reconciler, grapher, briefer>>

\* the loop condition fails: return spans
SplitReturn ==
    /\ splitter.pc = "loop"
    /\ ~(splitter.cursor < Len(splitter.normalized))
    /\ splitter' = [splitter EXCEPT !.pc = "done"]
    /\ UNCHANGED <<auxVars, chunker, pipelineVars, reconciler, grapher, briefer>>

SplitNext == SplitIterate \/ SplitReturn

SplitSpec == SplitInit /\ [][SplitNext]_vars /\ WF_vars(SplitNext)

----------------------------------------------------------------------------
(* derive_cut_parameters, _detect_global_span *)

TARGET_MIN == 150

\* the least target length the project form accepts
MinTarget == 80

\* int(target * r) for target >= 80 and r = num / den
Scaled(target, num, den) == (target * num) \div den

\* a variant of derive_cut_parameters with the 0.6 and 0.75 ratios exchanged
derive_cut_parameters_exchanged(target0) ==
    LET target == Max(80, target0)
        target_min == Max(50, Scaled(target, 6, 10))
        target_max == Max(target_min + 30, Scaled(target, 5, 4))
        cut_min == Max(40, Scaled(target, 3, 4))
        cut_max == Max(cut_min + 50, Scaled(target, 16, 10))
    IN [cut_min |-> cut_min, cut_max |-> cut_max,
        target_min |-> target_min, target_max |-> target_max]

\* a variant of derive_cut_parameters that takes the target as given
derive_cut_parameters_unclamped(target0) ==
    LET target == target0
        target_min == Max(50, Scaled(target, 3, 4))
        target_max == Max(target_min + 30, Scaled(target, 5, 4))
        cut_min == Max(40, Scaled(target, 6, 10))
        cut_max == Max(cut_min + 50, Scaled(target, 16, 10))
    IN [cut_min |-> cut_min, cut_max |-> cut_max,
        target_min |-> target_min, target_max |-> target_max]

derive_cut_parameters(target0) ==
    LET target == Max(80, target0)
        target_min == Max(50, Scaled(target, 3, 4))
        target_max == Max(target_min + 30, Scaled(target, 5, 4))
        cut_min == Max(40, Scaled(target, 6, 10))
        cut_max == Max(cut_min + 50, Scaled(target, 16, 10))
    IN [cut_min |-> cut_min, cut_max |-> cut_max,
        target_min |-> target_min, target_max |-> target_max]

\* a variant of detect_global_span that takes every offset as window-local
detect_global_span_local(local_value, chunk_start, chunk_end, chunk_size) ==
    IF local_value < 0 THEN chunk_start ELSE chunk_start + local_value

\* local_value > chunk_size * 1.5 is 2 * local_value > 3 * chunk_size
detect_global_span(local_value, chunk_start, chunk_end, chunk_size) ==
    IF local_value < 0 THEN chunk_start
    ELSE IF 2 * local_value > 3 * chunk_size THEN local_value
    ELSE chunk_start + local_value

----------------------------------------------------------------------------
(* _detect_global_span called alone *)

ReconcileInit ==
    /\ \E v \in (-2)..MaxOffset, start \in 0..MaxStart, size \in 0..MaxSize :
          reconciler = [pc |-> "call", local_value |-> v, chunk_start |-> start,
                        chunk_end |-> start + size, chunk_size |-> size, result |-> 0]
    /\ chunker = IdleChunker /\ splitter = IdleSplitter
    /\ grapher = IdleGrapher /\ briefer = IdleBriefer
    /\ full_text = <<>> /\ window = 0 /\ overlap = 0 /\ chunk_target = 0
    /\ chunks = <<>> /\ idx = 0 /\ panels = <<>> /\ cut_counter = 1
    /\ calls = <<>> /\ st_error = FALSE /\ pc = "idle"
    /\ AuxIdle

\* the call returns
ReconcileReturn ==
    /\ reconciler.pc = "call"
    /\ reconciler' = [reconciler EXCEPT
           !.pc = "done",
           !.result = detect_global_span(reconciler.local_value, reconciler.chunk_start,
                                         reconciler.chunk_end, reconciler.chunk_size)]
    /\ UNCHANGED <<auxVars, chunker, splitter, pipelineVars, grapher, briefer>>

ReconcileNext == ReconcileReturn

ReconcileSpec == ReconcileInit /\ [][ReconcileNext]_vars /\ WF_vars(ReconcileNext)

----------------------------------------------------------------------------
(* derive_cut_parameters called alone *)

DeriveInit ==
    /\ \E target \in (0 - LowTarget)..MaxTarget :
          deriver = [pc |-> "call", target |-> target,
                     result |-> [cut_min |-> 0, cut_max |-> 0,
                                 target_min |-> 0, target_max |-> 0]]
    /\ chunker = IdleChunker /\ splitter = IdleSplitter /\ reconciler = IdleReconciler
    /\ grapher = IdleGrapher /\ briefer = IdleBriefer
    /\ parser = IdleParser /\ normalizer = IdleNormalizer
    /\ full_text = <<>> /\ window = 0 /\ overlap = 0 /\ chunk_target = 0
    /\ chunks = <<>> /\ idx = 0 /\ panels = <<>> /\ cut_counter = 1
    /\ calls = <<>> /\ st_error = FALSE /\ pc = "idle"

\* the call returns
DeriveReturn ==
    /\ deriver.pc = "call"
    /\ deriver' = [deriver EXCEPT
           !.pc = "done",
           !.result = derive_cut_parameters(deriver.target)]
    /\ UNCHANGED <<chunker, splitter, pipelineVars, reconciler, grapher, briefer,
                   parser, normalizer>>

DeriveNext == DeriveReturn

DeriveSpec == DeriveInit /\ [][DeriveNext]_vars /\ WF_vars(DeriveNext)

----------------------------------------------------------------------------
(* _safe_json_loads and _safe_json_object.  A response is a text over the    *)
(* backtick, a letter, white space, the brackets, the braces, the comma and  *)
(* a digit; the JSON values over it are the number 1, the empty object and   *)
(* the arrays of values.                                                     *)

\* the backtick
BT == "backtick"

\* decoded values: None, a number, a dict, a list of values
NoData == [kind |-> "none", items |-> <<>>]

JsonNumber == [kind |-> "num", items |-> <<>>]

JsonDict == [kind |-> "dict", items |-> <<>>]

JsonList(items) == [kind |-> "list", items |-> items]

\* the first position from i on that holds no white space
SkipWs(t, i) ==
    LET rest == {j \in i..Len(t) : t[j] \notin Whitespace}
    IN IF rest = {} THEN Len(t) + 1 ELSE CHOOSE j \in rest : \A k \in rest : j <= k

ParseFail == [ok |-> FALSE, value |-> NoData, next |-> 0]

ParseOk(value, next) == [ok |-> TRUE, value |-> value, next |-> next]

\* the JSON decoder on the value that starts at position i
RECURSIVE ParseValue(_, _)
RECURSIVE ParseElements(_, _, _)
ParseValue(t, i) ==
    IF i > Len(t) THEN ParseFail
    ELSE IF t[i] = "1" THEN ParseOk(JsonNumber, i + 1)
    ELSE IF t[i] = "{"
         THEN LET j == SkipWs(t, i + 1)
              IN IF j <= Len(t) /\ t[j] = "}" THEN ParseOk(JsonDict, j + 1) ELSE ParseFail
    ELSE IF t[i] = "["
         THEN LET j == SkipWs(t, i + 1)
              IN IF j <= Len(t) /\ t[j] = "]" THEN ParseOk(JsonList(<<>>), j + 1)
                 ELSE ParseElements(t, j, <<>>)
    ELSE ParseFail

ParseElements(t, i, acc) ==
    LET v == ParseValue(t, i)
    IN IF ~v.ok THEN ParseFail
       ELSE LET j == SkipWs(t, v.next)
            IN IF j > Len(t) THEN ParseFail
               ELSE IF t[j] = "," THEN ParseElements(t, SkipWs(t, j + 1), Append(acc, v.value))
               ELSE IF t[j] = "]" THEN ParseOk(JsonList(Append(acc, v.value)), j + 1)
               ELSE ParseFail

\* json.loads(txt): ok is FALSE where it raises
json_loads(txt) ==
    LET v == ParseValue(txt, SkipWs(txt, 1))
    IN IF v.ok /\ SkipWs(txt, v.next) > Len(txt)
       THEN [ok |-> TRUE, value |-> v.value]
       ELSE [ok |-> FALSE, value |-> NoData]

\* txt.startswith("```")
StartsWithFence(txt) == Len(txt) >= 3 /\ \A j \in 1..3 : txt[j] = BT

\* re.sub(r"^```[a-zA-Z]*\n", "", txt) on a text that starts with the fence
StripOpeningFence(txt) ==
    LET after == {j \in 4..Len(txt) : txt[j] # "j"}
        stop == IF after = {} THEN Len(txt) + 1
                ELSE CHOOSE j \in after : \A k \in after : j <= k
    IN IF stop <= Len(txt) /\ txt[stop] = LF
       THEN SubSeq(txt, stop + 1, Len(txt))
       ELSE txt

\* re.sub(r"\n```$", "", txt): $ is the end of the text, or the place before
\* a newline that ends it
StripClosingFence(txt) ==
    LET n == Len(txt)
        closes(e) == e >= 4 /\ txt[e - 3] = LF /\ \A j \in (e - 2)..e : txt[j] = BT
    IN IF closes(n) THEN SubSeq(txt, 1, n - 4)
       ELSE IF n >= 1 /\ txt[n] = LF /\ closes(n - 1)
            THEN Append(SubSeq(txt, 1, n - 5), LF)
       ELSE txt

\* the first lines of both parsers: strip, then remove the fence markers
Unfenced(raw) ==
    LET txt == Strip(raw)
    IN IF StartsWithFence(txt) THEN StripClosingFence(StripOpeningFence(txt)) ELSE txt

\* JSON_ARRAY_EXTRACT.search(txt): the leftmost "[" followed, after white
\* space, by "{", up to the last "]" that follows a "}" after white space;
\* <<>> stands for no match (a match is never empty)
ArrayExtract(txt) ==
    LET n == Len(txt)
        ends(b) == {e \in (b + 2)..n :
                      /\ txt[e] = "]"
                      /\ \E k \in (b + 1)..(e - 1) :
                            /\ txt[k] = "}"
                            /\ \A j \in (k + 1)..(e - 1) : txt[j] \in Whitespace}
        starts == {st \in 1..n :
                      /\ txt[st] = "["
                      /\ LET b == SkipWs(txt, st + 1)
                         IN b <= n /\ txt[b] = "{" /\ ends(b) # {}}
    IN IF starts = {} THEN <<>>
       ELSE LET st == CHOOSE x \in starts : \A y \in starts : x <= y
            IN SubSeq(txt, st, MaxOf(ends(SkipWs(txt, st + 1))))

\* a variant of _safe_json_loads without the search for the array
safe_json_loads_whole(raw) ==
    LET data == json_loads(Unfenced(raw))
    IN IF data.ok /\ data.value.kind = "list" THEN data.value ELSE NoData

safe_json_loads(raw) ==
    LET unfenced == Unfenced(raw)
        match == ArrayExtract(unfenced)
        txt == IF match # <<>> THEN match ELSE unfenced
        data == json_loads(txt)
    IN IF data.ok /\ data.value.kind = "list" THEN data.value ELSE NoData

safe_json_object(raw) ==
    LET data == json_loads(Unfenced(raw))
    IN IF data.ok /\ data.value.kind = "dict" THEN data.value ELSE NoData

\* the parts a response is put together from
Proses == {<<>>, <<"j">>, <<"j", SP>>, <<LF, "j">>}

OpeningFences == {<<>>, <<BT, BT, BT, LF>>, <<BT, BT, BT, "j", LF>>}

ClosingFences == {<<>>, <<LF, BT, BT, BT>>}

ArraysOfObjects ==
    {<<"[", "{", "}", "]">>,
     <<"[", SP, "{", "}", ",", "{", SP, "}", LF, "]">>}

Objects == {<<"{", "}">>, <<"{", SP, "}">>}

Bodies ==
    ArraysOfObjects \cup Objects \cup
    {<<>>, <<"j">>, <<"1">>, <<"[", "]">>, <<"[", "1", "]">>, <<"[", "[", "{", "}", "]", "]">>,
     <<"[", "{", "}">>, <<"{", "}", "]">>, <<"[", "{", "}", ",", "]">>}

ParseInit ==
    /\ \E fn \in {"_safe_json_loads", "_safe_json_object"},
          before \in Proses, opening \in OpeningFences, body \in Bodies,
          closing \in ClosingFences, after \in Proses :
          parser = [pc |-> "call", fn |-> fn, before |-> before, opening |-> opening,
                    body |-> body, closing |-> closing, after |-> after,
                    raw |-> before \o opening \o body \o closing \o after,
                    result |-> NoData]
    /\ chunker = IdleChunker /\ splitter = IdleSplitter /\ reconciler = IdleReconciler
    /\ grapher = IdleGrapher /\ briefer = IdleBriefer
    /\ deriver = IdleDeriver /\ normalizer = IdleNormalizer
    /\ full_text = <<>> /\ window = 0 /\ overlap = 0 /\ chunk_target = 0
    /\ chunks = <<>> /\ idx = 0 /\ panels = <<>> /\ cut_counter = 1
    /\ calls = <<>> /\ st_error = FALSE /\ pc = "idle"

\* a call of _safe_json_loads returns
LoadsReturn ==
    /\ parser.pc = "call" /\ parser.fn = "_safe_json_loads"
    /\ parser' = [parser EXCEPT !.pc = "done", !.result = safe_json_loads(parser.raw)]
    /\ UNCHANGED <<chunker, splitter, pipelineVars, reconciler, grapher, briefer,
                   deriver, normalizer>>

\* a call of _safe_json_object returns
ObjectReturn ==
    /\ parser.pc = "call" /\ parser.fn = "_safe_json_object"
    /\ parser' = [parser EXCEPT !.pc = "done", !.result = safe_json_object(parser.raw)]
    /\ UNCHANGED <<chunker, splitter, pipelineVars, reconciler, grapher, briefer,
                   deriver, normalizer>>

ParseNext == LoadsReturn \/ ObjectReturn

ParseSpec == ParseInit /\ [][ParseNext]_vars /\ WF_vars(ParseNext)

----------------------------------------------------------------------------
(* The oracle: what _call_llm_chunk and _safe_json_loads give for one window *)

\* a value of source_local_span: an integer, absent, or one int() raises on
Given(n) == [given |-> "int", value |-> n]

Missing == [given |-> "missing", value |-> 0]

NonNumeric == [given |-> "non-numeric", value |-> 0]

\* a value of the "type" field: the key is absent, the value is null, or it
\* is the string itself
Absent == "<absent>"

Null == "<null>"

\* a value of the "speakers" field: absent or null, one string, or a list
NoNames == [kind |-> "absent", names |-> <<>>]

OneName(name) == [kind |-> "str", names |-> <<name>>]

NameList(names) == [kind |-> "list", names |-> names]

\* a record of the parsed array; start and end are the fields of
\* source_local_span; speaker is "" when the key is absent
Record(text, start, end) ==
    [dict |-> TRUE, text |-> text, start |-> start, end |-> end,
     type |-> Absent, speakers |-> NoNames, speaker |-> <<>>]

\* the record with the given "type", "speakers" and "speaker" fields
WithLabels(item, type, speakers, speaker) ==
    [item EXCEPT !.type = type, !.speakers = speakers, !.speaker = speaker]

\* an element of the parsed array that is no JSON object (item.get raises)
NotADict ==
    [dict |-> FALSE, text |-> <<>>, start |-> Missing, end |-> Missing,
     type |-> Absent, speakers |-> NoNames, speaker |-> <<>>]

\* the text pattern repeated up to n characters
Tile(pattern, n) == [k \in 1..n |-> pattern[((k - 1) % Len(pattern)) + 1]]

Items ==
    {NotADict,
     Record(<<>>, Missing, Missing),
     Record(<<"a">>, Missing, Missing),
     WithLabels(Record(<<SP>> \o Tile(<<"a", "a", KUTEN>>, LongRecord), Given(-1), Given(1)),
                "dialogue", NameList(<< <<"A">>, <<SP>>, <<SP, "a">>, <<"B">> >>), <<>>),
     WithLabels(Record(<<"a">>, Given(LongWindow - LongOverlap), Given(0)),
                "bogus", OneName(<<"B", SP>>), <<"A">>),
     WithLabels(Record(<<"a">>, Given(FarOffset), Given(FarOffset + 1)),
                Null, NameList(<<>>), <<SP, "b">>),
     Record(<<"a">>, Given(0), NonNumeric)}

\* "auth": the call raises openai.AuthenticationError; "error": it raises
\* another exception; "nodata": _safe_json_loads returns None or an empty
\* list; "data": it returns the non-empty list items
Responses(budget) ==
    {[kind |-> k, items |-> <<>>] : k \in {"auth", "error", "nodata"}}
    \cup {[kind |-> "data", items |-> <<i>>] : i \in {j \in Items : budget >= 1}}
    \cup {[kind |-> "data", items |-> <<i1, i2>>] :
              i1 \in {j \in Items : budget >= 2}, i2 \in Items}

RecordsOf(resp) == IF resp.kind = "data" THEN Len(resp.items) ELSE 0

RECURSIVE RecordsIn(_)
RecordsIn(log) == IF log = <<>> THEN 0 ELSE RecordsOf(log[1]) + RecordsIn(Tail(log))

----------------------------------------------------------------------------
(* llm_cut_and_label_with_params: the body of the loop over the windows *)

Digits == <<"0", "1", "2", "3", "4", "5", "6", "7", "8", "9">>

\* str(n) for n >= 0
RECURSIVE Str(_)
Str(n) == IF n < 10 THEN <<Digits[n + 1]>> ELSE Str(n \div 10) \o <<Digits[(n % 10) + 1]>>

\* s.zfill(width)
ZFill(s, width) == [k \in 1..(width - Len(s)) |-> "0"] \o s

\* pid = f"c{str(cut_counter).zfill(4)}"
Pid(counter) == <<"c">> \o ZFill(Str(counter), 4)

\* "sha1:" + hashlib.sha1(text.encode("utf-8")).hexdigest(), kept symbolic
Checksum(text) == <<"sha1", text>>

\* raw_speakers, as the comprehension of speakers_clean receives it
RawSpeakers(item) ==
    IF item.speakers.names # <<>> THEN item.speakers.names
    ELSE IF item.speaker # <<>> THEN <<item.speaker>> ELSE <<>>

\* speakers_clean = [str(s).strip() for s in (raw_speakers or []) if str(s).strip()]
SpeakersClean(raw_speakers) ==
    SelectSeq([k \in 1..Len(raw_speakers) |-> Strip(raw_speakers[k])],
              LAMBDA name : name # <<>>)

\* primary_speaker
PrimarySpeaker(item) ==
    LET speakers_clean == SpeakersClean(RawSpeakers(item))
    IN IF speakers_clean # <<>> THEN speakers_clean[1]
       ELSE IF item.speaker # <<>> THEN item.speaker ELSE Unknown

\* type=item.get("type", "unknown")
PanelType(item) == IF item.type = Absent THEN "unknown" ELSE item.type

\* Panel(...) of the oracle path; speakers is [] for None; chunk, path and
\* reported record which window and which branch appended it, and the names
\* the record reported
OraclePanel(counter, text_local, item, gs, ge, chunk) ==
    [id |-> Pid(counter), text |-> text_local,
     source_span |-> [start |-> gs, end |-> ge],
     type |-> PanelType(item), speaker |-> PrimarySpeaker(item),
     speakers |-> SpeakersClean(RawSpeakers(item)),
     checksum |-> Checksum(text_local), chunk |-> chunk, path |-> "oracle",
     reported |-> RawSpeakers(item)]

\* Panel(...) of the fallback path
FallbackPanel(counter, segment_text, global_start, global_end, chunk) ==
    [id |-> Pid(counter), text |-> segment_text,
     source_span |-> [start |-> global_start, end |-> global_end],
     type |-> "narration", speaker |-> Unknown, speakers |-> <<>>,
     checksum |-> Checksum(segment_text), chunk |-> chunk, path |-> "fallback",
     reported |-> <<>>]

\* a variant of NextCounter that forgets the increment
NextCounterStale(counter) == counter

\* cut_counter += 1
NextCounter(counter) == counter + 1

\* a variant of TextLocal that keeps the whole text
TextLocalWhole(item, cut_max) == Strip(item.text)

\* text_local = (item.get("text") or "").strip();
\* if len(text_local) > cut_max: text_local = text_local[:cut_max]
TextLocal(item, cut_max) ==
    LET stripped == Strip(item.text)
    IN IF Len(stripped) > cut_max THEN Slice(stripped, 0, cut_max) ELSE stripped

\* a variant of ReconciledSpan that takes the end from the length of the text
ReconciledSpanFromLength(ls, le, text_len, start_idx, end_idx, chunk_size) ==
    LET gs0 == detect_global_span(ls, start_idx, end_idx, chunk_size)
        gs == IF gs0 < start_idx THEN start_idx ELSE gs0
        ge1 == gs + text_len
        ge == IF ge1 > start_idx + chunk_size THEN start_idx + chunk_size ELSE ge1
    IN [start |-> gs, end |-> ge]

\* the span of a record whose start and end int() accepts
ReconciledSpan(ls, le, text_len, start_idx, end_idx, chunk_size) ==
    LET gs0 == detect_global_span(ls, start_idx, end_idx, chunk_size)
        ge0 == detect_global_span(le, start_idx, end_idx, chunk_size)
        ge1 == IF ge0 <= gs0 THEN gs0 + text_len ELSE ge0
        gs == IF gs0 < start_idx THEN start_idx ELSE gs0
        ge2 == IF ge1 < gs THEN gs ELSE ge1
        ge == IF ge2 > start_idx + chunk_size THEN start_idx + chunk_size ELSE ge2
    IN [start |-> gs, end |-> ge]

\* TRUE when processing the record raises: item.get on a non-dict, or int() on
\* a span value it rejects (a record with an empty text is skipped before)
ItemRaises(item) ==
    \/ ~item.dict
    \/ /\ Strip(item.text) # <<>>
       /\ (item.start = NonNumeric \/ item.end = NonNumeric)

\* for item in data: ... ; stops at the first record that raises
RECURSIVE OracleLoop(_, _, _, _, _, _)
OracleLoop(items, acc, cut_max, start_idx, end_idx, chunk) ==
    IF items = <<>> THEN acc
    ELSE LET item == Head(items)
         IN IF ItemRaises(item) THEN [acc EXCEPT !.raised = TRUE]
            ELSE LET text_local == TextLocal(item, cut_max)
                     ls == IF item.start = Missing THEN 0 ELSE item.start.value
                     le == IF item.end = Missing THEN ls + Len(text_local)
                           ELSE item.end.value
                     span == ReconciledSpan(ls, le, Len(text_local), start_idx, end_idx,
                                            end_idx - start_idx)
                     next == IF text_local = <<>> THEN acc
                             ELSE [acc EXCEPT
                                     !.panels = Append(@, OraclePanel(acc.cut_counter,
                                                   text_local, item, span.start, span.end,
                                                   chunk)),
                                     !.cut_counter = NextCounter(@)]
                 IN OracleLoop(Tail(items), next, cut_max, start_idx, end_idx, chunk)

\* the try block: what it leaves in panels and cut_counter, and whether it raised
TryBlock(resp, acc, cut_max, start_idx, end_idx, chunk) ==
    IF resp.kind # "data" THEN [acc EXCEPT !.raised = TRUE]
    ELSE OracleLoop(resp.items, acc, cut_max, start_idx, end_idx, chunk)

\* a variant of HandlerReraises in which the handler re-raises what it caught
HandlerReraisesAll(resp) == TRUE

\* the inner try of the handler: TRUE when the exception leaves the function.
\* The raise is inside a try whose "except Exception: pass" catches it.
HandlerReraises(resp) ==
    LET raise_reached == resp.kind = "auth"
        caught_by_except_exception == TRUE
    IN raise_reached /\ ~caught_by_except_exception

\* fallback_segments, with the replacement used when the splitter returns none
FallbackSegments(chunk_text, cut_min, cut_max) ==
    LET fallback_segments == split_fallback_chunk(chunk_text, cut_min, cut_max)
    IN IF fallback_segments # <<>> THEN fallback_segments
       ELSE IF Strip(chunk_text) # <<>>
            THEN << <<Leading(chunk_text), TrailingEnd(chunk_text), Strip(chunk_text)>> >>
            ELSE <<>>

\* a variant of GlobalEnd that ends every fallback Cut at the window's end
GlobalEndAtWindowEnd(global_start, segment_text, start_idx, chunk_size) ==
    start_idx + chunk_size

\* global_end = min(global_start + len(segment_text), start_idx + chunk_size)
GlobalEnd(global_start, segment_text, start_idx, chunk_size) ==
    Min(global_start + Len(segment_text), start_idx + chunk_size)

\* for local_start, _, segment_text in fallback_segments: ...
RECURSIVE FallbackLoop(_, _, _, _, _)
FallbackLoop(segments, acc, start_idx, chunk_size, chunk) ==
    IF segments = <<>> THEN acc
    ELSE LET segment_text == Strip(segments[1][3])
             global_start == start_idx + segments[1][1]
             next == IF segment_text = <<>> THEN acc
                     ELSE [acc EXCEPT
                             !.panels = Append(@, FallbackPanel(acc.cut_counter,
                                           segment_text, global_start,
                                           GlobalEnd(global_start, segment_text,
                                                     start_idx, chunk_size),
                                           chunk)),
                             !.cut_counter = NextCounter(@)]
         IN FallbackLoop(Tail(segments), next, start_idx, chunk_size, chunk)

\* one pass of the loop body for window ch (the chunk-th) and oracle answer
\* resp; fallback_segments is what the handler computes when it is reached
LoopBody(resp, acc0, ch, chunk, cut_max, fallback_segments) ==
    LET tried == TryBlock(resp, [acc0 EXCEPT !.raised = FALSE], cut_max,
                          ch.start, ch.end, chunk)
    IN IF ~tried.raised THEN tried
       ELSE IF HandlerReraises(resp) THEN [tried EXCEPT !.propagated = TRUE]
       ELSE FallbackLoop(fallback_segments, [tried EXCEPT !.raised = FALSE],
                         ch.start, ch.end - ch.start, chunk)

----------------------------------------------------------------------------
(* llm_cut_and_label_with_params *)

DocChars == {"a", LF, CR}

LongPatterns ==
    {<<"a">>, <<"a", KUTEN>>, <<"a", "a", LF, LF>>, <<SP, "a", CR, LF, TOUTEN>>,
     <<SP, LF>>}

\* the arguments of the runs the model follows: every short text with small
\* windows and the default target, and the long texts with a large window
Inputs ==
    {[full_text |-> text, window |-> w, overlap |-> ov, chunk_target |-> TARGET_MIN] :
        text \in TextsOver(DocChars, MaxDocLen), w \in 2..MaxDocWindow,
        ov \in 1..(MaxDocWindow - 1)}
    \cup {[full_text |-> Tile(pattern, LongLen), window |-> LongWindow,
           overlap |-> LongOverlap, chunk_target |-> MinTarget] : pattern \in LongPatterns}

\* a call of llm_cut_and_label_with_params
CutInit ==
    /\ \E in \in {x \in Inputs : x.overlap < x.window} :
          /\ full_text = in.full_text
          /\ window = in.window
          /\ overlap = in.overlap
          /\ chunk_target = in.chunk_target
    /\ chunks = <<>> /\ idx = 0 /\ panels = <<>> /\ cut_counter = 1
    /\ calls = <<>> /\ st_error = FALSE /\ pc = "start"
    /\ AuxIdle
    /\ chunker = IdleChunker /\ splitter = IdleSplitter
    /\ reconciler = IdleReconciler /\ grapher = IdleGrapher /\ briefer = IdleBriefer

\* up to the loop: chunks = chunk_for_llm(full_text, window, overlap)
Start ==
    /\ pc = "start"
    /\ chunks' = chunk_for_llm(full_text, window, overlap)
    /\ pc' = "loop"
    /\ UNCHANGED <<auxVars, reconciler, grapher, briefer,
                   chunker, splitter, full_text, window, overlap, chunk_target,
                   idx, panels, cut_counter, calls, st_error>>

\* one pass of the loop over the windows, the oracle answering resp
ProcessChunk ==
    /\ pc = "loop"
    /\ idx < Len(chunks)
    /\ LET ch == chunks[idx + 1]
           params == derive_cut_parameters(chunk_target)
           chunk_text == Slice(full_text, ch.start, ch.end)
           fallback_segments == FallbackSegments(chunk_text, params.cut_min, params.cut_max)
       IN \E resp \in Responses(MaxRecords - RecordsIn(calls)) :
          LET after == LoopBody(resp,
                                [panels |-> panels, cut_counter |-> cut_counter,
                                 raised |-> FALSE, propagated |-> FALSE],
                                ch, idx + 1, params.cut_max, fallback_segments)
          IN /\ panels' = after.panels
             /\ cut_counter' = after.cut_counter
             /\ calls' = Append(calls, resp)
             /\ st_error' = (st_error \/ resp.kind = "auth")
             /\ idx' = idx + 1
             /\ pc' = IF after.propagated THEN "raised" ELSE "loop"
    /\ UNCHANGED <<auxVars, reconciler, grapher, briefer,
                   chunker, splitter, full_text, window, overlap, chunk_target, chunks>>

\* the loop is over: return panels
Return ==
    /\ pc = "loop"
    /\ idx = Len(chunks)
    /\ pc' = "returned"
    /\ UNCHANGED <<auxVars, reconciler, grapher, briefer,
                   chunker, splitter, full_text, window, overlap, chunk_target,
                   chunks, idx, panels, cut_counter, calls, st_error>>

CutNext == Start \/ ProcessChunk \/ Return

----------------------------------------------------------------------------
(* generate_character_graph_dot: the reducer *)

WINDOW == 2000

OVERLAP == 150

\* the label given to a relationship whose label is blank
DefaultLabel == <<"関係">>

\* records of the lists "characters" and "relationships"
Character(name, description) == [name |-> name, description |-> description]

Relationship(source, target, label) == [source |-> source, target |-> target, label |-> label]

\* nodes is a dict: a sequence of [name, desc] in insertion order
HasNode(nodes, name) == \E j \in 1..Len(nodes) : nodes[j].name = name

NodeDesc(nodes, name) == nodes[CHOOSE j \in 1..Len(nodes) : nodes[j].name = name].desc

\* the body of "for char in data.get("characters", [])"
AddCharacter(nodes, char) ==
    LET name == Strip(char.name)
        desc == Strip(char.description)
    IN IF name = <<>> THEN nodes
       ELSE IF ~HasNode(nodes, name) THEN Append(nodes, [name |-> name, desc |-> desc])
       ELSE IF desc # <<>> /\ NodeDesc(nodes, name) = <<>>
            THEN [j \in 1..Len(nodes) |->
                     IF nodes[j].name = name THEN [nodes[j] EXCEPT !.desc = desc]
                     ELSE nodes[j]]
            ELSE nodes

\* a variant of SkipsRelationship that lets self-edges through
SkipsOnlyBlank(src, tgt) == src = <<>> \/ tgt = <<>>

\* if not src or not tgt or src.lower() == tgt.lower(): continue
SkipsRelationship(src, tgt) == src = <<>> \/ tgt = <<>> \/ Lower(src) = Lower(tgt)

\* edges is a dict: a sequence of [source, target, labels] in insertion order.
\* The body of "for rel in data.get("relationships", [])"
AddRelationship(edges, rel) ==
    LET src == Strip(rel.source)
        tgt == Strip(rel.target)
        label == IF Strip(rel.label) # <<>> THEN Strip(rel.label) ELSE DefaultLabel
    IN IF SkipsRelationship(src, tgt) THEN edges
       ELSE IF \E j \in 1..Len(edges) : edges[j].source = src /\ edges[j].target = tgt
            THEN [j \in 1..Len(edges) |->
                     IF edges[j].source = src /\ edges[j].target = tgt
                     THEN [edges[j] EXCEPT !.labels = @ \cup {label}]
                     ELSE edges[j]]
            ELSE Append(edges, [source |-> src, target |-> tgt, labels |-> {label}])

RECURSIVE AddCharacters(_, _)
AddCharacters(nodes, chars) ==
    IF chars = <<>> THEN nodes
    ELSE AddCharacters(AddCharacter(nodes, Head(chars)), Tail(chars))

RECURSIVE AddRelationships(_, _)
AddRelationships(edges, rels) ==
    IF rels = <<>> THEN edges
    ELSE AddRelationships(AddRelationship(edges, Head(rels)), Tail(rels))

\* what the function returns for nodes and edges: node_names (a sorted list,
\* kept as the set of its elements), the description of every name, and the
\* edge lines of the DOT text
GraphResult(nodes, edges) ==
    LET node_names == {nodes[j].name : j \in 1..Len(nodes)}
                      \cup {edges[j].source : j \in 1..Len(edges)}
                      \cup {edges[j].target : j \in 1..Len(edges)}
    IN [node_names |-> node_names,
        descriptions |-> [name \in node_names |->
                             IF HasNode(nodes, name) THEN NodeDesc(nodes, name) ELSE <<>>],
        edges |-> {edges[j] : j \in 1..Len(edges)}]

\* return "", [], {}
EmptyGraph == [node_names |-> {}, descriptions |-> <<>>, edges |-> {}]

----------------------------------------------------------------------------
(* The oracle of the graph: what _call_graph_chunk gives for one window *)

CharacterMentions ==
    {Character(<<"A">>, <<"a">>), Character(<<"A">>, <<"a", "a">>),
     Character(<<"a">>, <<"b">>), Character(<<"A">>, <<>>),
     Character(<<SP, "B">>, <<SP, "b", SP>>), Character(<<SP>>, <<"a">>)}

RelationshipMentions ==
    {Relationship(<<"A">>, <<"B">>, <<"a">>), Relationship(<<"A">>, <<"B">>, <<"b">>),
     Relationship(<<"A">>, <<"a">>, <<"a">>), Relationship(<<"A">>, <<"B">>, <<SP>>),
     Relationship(<<"a">>, <<"B">>, <<"a">>), Relationship(<<SP, "A">>, <<"B", SP>>, <<"a", SP>>),
     Relationship(<<>>, <<"B">>, <<"a">>)}

SeqsUpTo(S, n) == UNION {[1..k -> S] : k \in 0..n}

\* "raises": the oracle call raises; "none": _safe_json_object returns None or
\* an empty object; "bad-characters" / "bad-relationships": the field is not a
\* list of records (null, a string, a list holding a non-object); "data": both
\* fields are lists of records (an absent field is the empty list)
Extractions(budget) ==
    {[kind |-> k, characters |-> <<>>, relationships |-> <<>>] :
        k \in {"raises", "none", "bad-characters", "bad-relationships"}}
    \cup {[kind |-> "data", characters |-> cs, relationships |-> rs] :
              cs \in SeqsUpTo(CharacterMentions, budget),
              rs \in SeqsUpTo(RelationshipMentions, budget)}

MentionsOf(ext) == Len(ext.characters) + Len(ext.relationships)

RECURSIVE MentionsIn(_)
MentionsIn(log) == IF log = <<>> THEN 0 ELSE MentionsOf(log[1]) + MentionsIn(Tail(log))

----------------------------------------------------------------------------
(* generate_character_graph_dot *)

GraphTexts == {<<>>, <<SP>>, <<"a">>, <<LF, "a">>, Tile(<<"a">>, GraphLen)}

\* a call of generate_character_graph_dot on one of the given texts
GraphInitOn(texts) ==
    /\ full_text \in texts
    /\ grapher = [pc |-> "start", chunks |-> <<>>, k |-> 0, nodes |-> <<>>,
                  edges |-> <<>>, log |-> <<>>, result |-> EmptyGraph]
    /\ chunker = IdleChunker /\ splitter = IdleSplitter
    /\ reconciler = IdleReconciler /\ briefer = IdleBriefer
    /\ window = 0 /\ overlap = 0 /\ chunk_target = 0
    /\ chunks = <<>> /\ idx = 0 /\ panels = <<>> /\ cut_counter = 1
    /\ calls = <<>> /\ st_error = FALSE /\ pc = "idle"
    /\ AuxIdle

GraphInit == GraphInitOn(GraphTexts)

\* up to the loop: the early return for a blank text, else the windows
GraphStart ==
    /\ grapher.pc = "start"
    /\ IF full_text = <<>> \/ Strip(full_text) = <<>>
       THEN grapher' = [grapher EXCEPT !.pc = "returned", !.result = EmptyGraph]
       ELSE grapher' = [grapher EXCEPT
                !.pc = "loop", !.chunks = chunk_for_llm(full_text, WINDOW, OVERLAP)]
    /\ UNCHANGED <<auxVars, chunker, splitter, pipelineVars, reconciler, briefer>>

\* one pass of the loop over the windows, the oracle answering ext
GraphChunk ==
    /\ grapher.pc = "loop"
    /\ grapher.k < Len(grapher.chunks)
    /\ \E ext \in Extractions(MaxMentions - MentionsIn(grapher.log)) :
          /\ MentionsOf(ext) <= MaxMentions - MentionsIn(grapher.log)
          /\ grapher' = [grapher EXCEPT
                 !.k = @ + 1,
                 !.log = Append(@, ext),
                 !.nodes = IF ext.kind \in {"data", "bad-relationships"}
                           THEN AddCharacters(@, ext.characters) ELSE @,
                 !.edges = IF ext.kind = "data"
                           THEN AddRelationships(@, ext.relationships) ELSE @,
                 !.pc = IF ext.kind \in {"raises", "bad-characters", "bad-relationships"}
                        THEN "raised" ELSE "loop"]
    /\ UNCHANGED <<auxVars, chunker, splitter, pipelineVars, reconciler, briefer>>

\* the loop is over: the empty result when nothing was collected, else the graph
GraphReturn ==
    /\ grapher.pc = "loop"
    /\ grapher.k = Len(grapher.chunks)
    /\ grapher' = [grapher EXCEPT
           !.pc = "returned",
           !.result = IF grapher.nodes = <<>> /\ grapher.edges = <<>> THEN EmptyGraph
                      ELSE GraphResult(grapher.nodes, grapher.edges)]
    /\ UNCHANGED <<auxVars, chunker, splitter, pipelineVars, reconciler, briefer>>

GraphNext == GraphStart \/ GraphChunk \/ GraphReturn

GraphSpec == GraphInit /\ [][GraphNext]_vars /\ WF_vars(GraphNext)

----------------------------------------------------------------------------
(* build_character_brief *)

\* a in b, for strings
IsSubstring(a, b) == \E i \in 0..(Len(b) - Len(a)) : SubSeq(b, i + 1, i + Len(a)) = a

\* the three tests of the first loop, for one Panel
Matches(name_l, p) ==
    \/ p.speaker # <<>> /\ IsSubstring(name_l, Lower(p.speaker))
    \/ IsSubstring(name_l, Lower(p.text))
    \/ \E j \in 1..Len(p.entities) : Lower(p.entities[j]) = name_l

\* the second loop: the first Panel of every id
RECURSIVE Uniq(_, _)
Uniq(hits, uniq) ==
    IF hits = <<>> THEN uniq
    ELSE IF \E j \in 1..Len(uniq) : uniq[j].id = Head(hits).id
         THEN Uniq(Tail(hits), uniq)
         ELSE Uniq(Tail(hits), Append(uniq, Head(hits)))

\* x put into the sorted list after every element whose start is not greater
InsertByStart(sorted, x) ==
    LET before == SelectSeq(sorted, LAMBDA y : y.source_span.start <= x.source_span.start)
        after == SelectSeq(sorted, LAMBDA y : y.source_span.start > x.source_span.start)
    IN before \o <<x>> \o after

\* a variant of SortedByStart that leaves the list as it is
NotSorted(list) == list

\* uniq.sort(key=lambda x: x.source_span.get("start", 0)): a stable sort
RECURSIVE SortedByStart(_)
SortedByStart(list) ==
    IF list = <<>> THEN <<>>
    ELSE InsertByStart(SortedByStart(SubSeq(list, 1, Len(list) - 1)), list[Len(list)])

\* hits after the first loop
Hits(name, cuts) == SelectSeq(cuts, LAMBDA p : Matches(Lower(name), p))

\* build_character_brief for limit >= 0
build_character_brief(name, cuts, limit) ==
    LET hits == Hits(name, cuts)
        uniq == SortedByStart(Uniq(hits, <<>>))
    IN [count |-> Len(uniq), panels |-> SubSeq(uniq, 1, Min(limit, Len(uniq)))]

\* a Panel as build_character_brief reads it
BriefPanel(id, speaker, text, entities, start) ==
    [id |-> id, speaker |-> speaker, text |-> text, entities |-> entities,
     source_span |-> [start |-> start]]

BriefPanels ==
    {BriefPanel(Pid(1), <<"A">>, <<"b">>, <<>>, 2),
     BriefPanel(Pid(2), Unknown, <<"a", SP, "B">>, <<>>, 0),
     BriefPanel(Pid(3), <<"B">>, <<"b">>, << <<"A">> >>, 2),
     BriefPanel(Pid(4), <<>>, <<"b">>, << <<"A", "B">> >>, 1)}

BriefNames == {<<>>, <<"A">>, <<"a">>, <<"b">>, <<"a", "b">>}

BriefInit ==
    /\ \E name \in BriefNames, cuts \in SeqsUpTo(BriefPanels, MaxCuts), limit \in 0..MaxLimit :
          briefer = [pc |-> "call", name |-> name, panels |-> cuts, limit |-> limit,
                     hits |-> <<>>, result |-> [count |-> 0, panels |-> <<>>]]
    /\ chunker = IdleChunker /\ splitter = IdleSplitter
    /\ reconciler = IdleReconciler /\ grapher = IdleGrapher
    /\ full_text = <<>> /\ window = 0 /\ overlap = 0 /\ chunk_target = 0
    /\ chunks = <<>> /\ idx = 0 /\ panels = <<>> /\ cut_counter = 1
    /\ calls = <<>> /\ st_error = FALSE /\ pc = "idle"
    /\ AuxIdle

\* the call returns
BriefReturn ==
    /\ briefer.pc = "call"
    /\ briefer' = [briefer EXCEPT
           !.pc = "done",
           !.hits = Hits(briefer.name, briefer.panels),
           !.result = build_character_brief(briefer.name, briefer.panels, briefer.limit)]
    /\ UNCHANGED <<auxVars, chunker, splitter, pipelineVars, reconciler, grapher>>

BriefNext == BriefReturn

BriefSpec == BriefInit /\ [][BriefNext]_vars /\ WF_vars(BriefNext)

----------------------------------------------------------------------------
(* models.py: _normalize_token, _build_name_map and _normalize_speaker.  A   *)
(* name_map is the sequence of its entries in the order of its keys.         *)

\* re.sub(r"\s+", "", value).lower()
normalize_token(value) == Lower(SelectSeq(value, LAMBDA c : c \notin Whitespace))

\* mapping[norm] = name: a new key goes last, a known key keeps its place
SetEntry(mapping, norm, name) ==
    IF \E i \in 1..Len(mapping) : mapping[i].norm = norm
    THEN [i \in 1..Len(mapping) |->
             IF mapping[i].norm = norm THEN [norm |-> norm, canonical |-> name]
             ELSE mapping[i]]
    ELSE Append(mapping, [norm |-> norm, canonical |-> name])

\* the loop of _build_name_map over the names not yet seen
RECURSIVE BuildLoop(_, _)
BuildLoop(names, mapping) ==
    IF names = <<>> THEN mapping
    ELSE LET name == Head(names)
             norm == normalize_token(name)
         IN IF name = <<>> \/ norm = <<>> THEN BuildLoop(Tail(names), mapping)
            ELSE BuildLoop(Tail(names), SetEntry(mapping, norm, name))

build_name_map(names) == BuildLoop(names, <<>>)

\* a variant of _normalize_speaker without the test for the exact match
normalize_speaker_loop_only(speaker, name_map) ==
    LET norm == normalize_token(speaker)
        hits == {i \in 1..Len(name_map) :
                    \/ IsSubstring(name_map[i].norm, norm)
                    \/ IsSubstring(norm, name_map[i].norm)}
    IN IF hits # {} THEN name_map[CHOOSE i \in hits : \A j \in hits : i <= j].canonical
       ELSE Strip(speaker)

normalize_speaker(speaker, name_map) ==
    LET norm == normalize_token(speaker)
        exact == {i \in 1..Len(name_map) : name_map[i].norm = norm}
        hits == {i \in 1..Len(name_map) :
                    \/ IsSubstring(name_map[i].norm, norm)
                    \/ IsSubstring(norm, name_map[i].norm)}
    IN IF exact # {} THEN name_map[CHOOSE i \in exact : TRUE].canonical
       ELSE IF hits # {} THEN name_map[CHOOSE i \in hits : \A j \in hits : i <= j].canonical
       ELSE Strip(speaker)

\* the names of the character list: c.get("Name", "") may be empty or blank
RosterNames == {<<>>, <<SP>>, <<"A">>, <<"b">>, <<"a", "b">>, <<"A", SP, "B">>}

NormalizeInit ==
    /\ \E speaker \in TextsOver(NameChars, MaxSpeakerLen),
          names \in SeqsUpTo(RosterNames, MaxRoster) :
          normalizer = [pc |-> "build", speaker |-> speaker, names |-> names,
                        name_map |-> <<>>, result |-> <<>>]
    /\ chunker = IdleChunker /\ splitter = IdleSplitter /\ reconciler = IdleReconciler
    /\ grapher = IdleGrapher /\ briefer = IdleBriefer
    /\ deriver = IdleDeriver /\ parser = IdleParser
    /\ full_text = <<>> /\ window = 0 /\ overlap = 0 /\ chunk_target = 0
    /\ chunks = <<>> /\ idx = 0 /\ panels = <<>> /\ cut_counter = 1
    /\ calls = <<>> /\ st_error = FALSE /\ pc = "idle"

\* name_map = _build_name_map(canonical_names or [])
NormalizeBuild ==
    /\ normalizer.pc = "build"
    /\ normalizer' = [normalizer EXCEPT
           !.pc = "call", !.name_map = build_name_map(normalizer.names)]
    /\ UNCHANGED <<chunker, splitter, pipelineVars, reconciler, grapher, briefer,
                   deriver, parser>>

\* a call of _normalize_speaker returns
NormalizeReturn ==
    /\ normalizer.pc = "call"
    /\ normalizer' = [normalizer EXCEPT
           !.pc = "done",
           !.result = normalize_speaker(normalizer.speaker, normalizer.name_map)]
    /\ UNCHANGED <<chunker, splitter, pipelineVars, reconciler, grapher, briefer,
                   deriver, parser>>

NormalizeNext == NormalizeBuild \/ NormalizeReturn

NormalizeSpec == NormalizeInit /\ [][NormalizeNext]_vars /\ WF_vars(NormalizeNext)

----------------------------------------------------------------------------
(* The two pipelines of the module: a run is a call of one of them *)

Init == CutInit \/ GraphInitOn({text \in GraphTexts : Len(text) <= MaxDocLen})

Next == Start \/ ProcessChunk \/ Return \/ GraphStart \/ GraphChunk \/ GraphReturn

Spec == Init /\ [][Next]_vars /\ WF_vars(Next)

----------------------------------------------------------------------------
(* Claims about chunk_for_llm (ChunkSpec) *)

ChunkDone == chunker.pc = "done"

WindowsNonEmpty(cuts) == \A k \in 1..Len(cuts) : cuts[k].start < cuts[k].end

WindowsCover(cuts, n) ==
    \A p \in 0..(n - 1) : \E k \in 1..Len(cuts) : cuts[k].start <= p /\ p < cuts[k].end

StartsIncrease(cuts) == \A k \in 1..(Len(cuts) - 1) : cuts[k].start < cuts[k + 1].start

\* C2: for 0 < overlap < size the windows chunk_for_llm returns are non-empty
\* (none only for the empty text), cover every offset of [0, len(text)) of the
\* text as it was passed in, and have strictly increasing starts.
C2_WindowsCoverPassedText ==
    ChunkDone =>
        /\ WindowsNonEmpty(chunker.cuts)
        /\ (chunker.cuts = <<>> => chunker.text = <<>>)
        /\ WindowsCover(chunker.cuts, Len(chunker.text))
        /\ StartsIncrease(chunker.cuts)

----------------------------------------------------------------------------
(* Claims about _split_fallback_chunk (SplitSpec) *)

SplitDone == splitter.pc = "done"

SegmentsOrdered(spans) == \A k \in 1..(Len(spans) - 1) : spans[k][2] <= spans[k + 1][1]

SolidInExactlyOne(normalized, spans) ==
    \A p \in 0..(Len(normalized) - 1) :
        normalized[p + 1] \notin Whitespace =>
            Cardinality({k \in 1..Len(spans) : spans[k][1] <= p /\ p < spans[k][2]}) = 1

SegmentsAreSlices(normalized, spans) ==
    \A k \in 1..Len(spans) : spans[k][3] = Slice(normalized, spans[k][1], spans[k][2])

\* C9: for 1 <= min_len <= max_len the returned segments are in increasing,
\* non-overlapping order, every non-whitespace character of the normalised text
\* lies in exactly one segment's [local_start, local_end), and every segment's
\* text is the normalised text sliced at its offsets.
C9_FallbackCoversWindow ==
    (SplitDone /\ 1 <= splitter.cut_min /\ splitter.cut_min <= splitter.cut_max) =>
        /\ SegmentsOrdered(splitter.spans)
        /\ SolidInExactlyOne(splitter.normalized, splitter.spans)
        /\ SegmentsAreSlices(splitter.normalized, splitter.spans)

\* C9 witness: a call with valid bounds that split the text into two segments
\* and trimmed whitespace from a segment edge.
C9_Witness ==
    /\ SplitDone /\ 1 <= splitter.cut_min /\ splitter.cut_min <= splitter.cut_max
    /\ Len(splitter.spans) >= 2
    /\ splitter.spans[1][2] < splitter.spans[2][1]

SegmentsInRange(text, spans) ==
    \A k \in 1..Len(spans) :
        0 <= spans[k][1] /\ spans[k][1] < spans[k][2] /\ spans[k][2] <= Len(text)

\* every iteration so far has moved the cursor forward by at least one
\* character, and the cursor is within the text: the loop ends within
\* len(text) iterations
EveryIterationAdvances ==
    /\ splitter.iterations <= splitter.cursor
    /\ splitter.cursor <= Len(splitter.normalized)

\* C10 as claimed: for every pair of integers (min_len, max_len) the call
\* terminates (every iteration moves the cursor forward, so the loop ends
\* within len(text) iterations) without raising, and every returned segment
\* has 0 <= local_start < local_end <= len(window_text).
C10_TerminatesForAllBounds ==
    splitter.pc # "idle" =>
        /\ EveryIterationAdvances
        /\ SplitDone => SegmentsInRange(splitter.text, splitter.spans)

\* C10 amended: for every integer min_len and every max_len >= 1 the call
\* terminates (every iteration moves the cursor forward, so the loop ends
\* within len(text) iterations) without raising, and every returned segment
\* has 0 <= local_start < local_end <= len(window_text).
C10_TerminatesForPositiveMax ==
    splitter.pc # "idle" /\ splitter.cut_max >= 1 =>
        /\ EveryIterationAdvances
        /\ SplitDone => SegmentsInRange(splitter.text, splitter.spans)

\* C10 witness: a call with min_len <= 0 and max_len >= 1 shorter than the
\* text has returned a segment.
C10_Witness ==
    /\ SplitDone /\ splitter.cut_min <= 0 /\ splitter.cut_max >= 1
    /\ splitter.cut_max < Len(splitter.normalized)
    /\ splitter.spans # <<>>

----------------------------------------------------------------------------
(* Claims about _detect_global_span (ReconcileSpec) *)

ReconcileDone == reconciler.pc = "done"

\* C11: _detect_global_span(v, window_start, window_end, window_size) returns
\* window_start when v < 0, v unchanged when v > 1.5 x window_size, and
\* window_start + v otherwise; every v with 0 <= v <= window_size maps to
\* window_start + v.
C11_ReconcileByMagnitude ==
    ReconcileDone =>
        LET v == reconciler.local_value
            window_start == reconciler.chunk_start
            window_size == reconciler.chunk_size
        IN /\ v < 0 => reconciler.result = window_start
           /\ (v >= 0 /\ 2 * v > 3 * window_size) => reconciler.result = v
           /\ (v >= 0 /\ 2 * v <= 3 * window_size) => reconciler.result = window_start + v
           /\ (0 <= v /\ v <= window_size) => reconciler.result = window_start + v

\* C11 witness: a call in a window that starts after offset 0 returned an
\* offset beyond 1.5 x window_size unchanged.
C11_Witness ==
    /\ ReconcileDone /\ reconciler.chunk_start > 0 /\ reconciler.chunk_size > 0
    /\ 2 * reconciler.local_value > 3 * reconciler.chunk_size
    /\ reconciler.result = reconciler.local_value

----------------------------------------------------------------------------
(* Claims about llm_cut_and_label_with_params (Spec) *)

Returned == pc = "returned"

\* the text of the k-th window, as the loop slices it
ChunkText(k) == Slice(full_text, chunks[k].start, chunks[k].end)

HasSolid(text) == \E p \in 1..Len(text) : text[p] \notin Whitespace

\* the answer made the try block raise: the call failed, nothing could be
\* parsed, the array was empty, or a record of it was invalid
Failed(resp) ==
    \/ resp.kind # "data"
    \/ \E j \in 1..Len(resp.items) : ItemRaises(resp.items[j])

CutsOf(k) == SelectSeq(panels, LAMBDA c : c.chunk = k)

FallbackCutsOf(k) == SelectSeq(panels, LAMBDA c : c.chunk = k /\ c.path = "fallback")

\* C1: in a run in which every oracle call fails with a non-authorization
\* error, every non-whitespace character of the source text lies inside the
\* span of some emitted Cut, and every Cut's text is the source text sliced at
\* the Cut's span.
C1_FallbackOnlyReconstructsSource ==
    (Returned /\ \A k \in 1..Len(calls) : calls[k].kind = "error") =>
        /\ \A p \in 0..(Len(full_text) - 1) :
              full_text[p + 1] \notin Whitespace =>
                  \E k \in 1..Len(panels) :
                      /\ panels[k].source_span.start <= p
                      /\ p < panels[k].source_span.end
        /\ \A k \in 1..Len(panels) :
              panels[k].text = Slice(full_text, panels[k].source_span.start,
                                     panels[k].source_span.end)

\* C3: when the oracle call of a window fails with an authentication error the
\* run aborts with that error: no Cut is emitted for that window, no later
\* window is processed and no Cut list is returned.
C3_AuthenticationErrorAborts ==
    \A k \in 1..Len(calls) :
        calls[k].kind = "auth" =>
            /\ pc = "raised"
            /\ Len(calls) = k
            /\ CutsOf(k) = <<>>

\* C4: a failure other than an authorization failure never aborts the run: the
\* window is handled by the fallback splitter (one Cut per segment), the
\* windows are processed in order, and the run returns the Cut list once all of
\* them have been.
C4_OtherFailuresAreWindowLocal ==
    /\ pc # "raised"
    /\ idx = Len(calls)
    /\ Returned => Len(calls) = Len(chunks)
    /\ \A k \in 1..Len(calls) :
          (Failed(calls[k]) /\ calls[k].kind # "auth") =>
              Len(FallbackCutsOf(k)) =
                  Len(split_fallback_chunk(ChunkText(k),
                          derive_cut_parameters(chunk_target).cut_min,
                          derive_cut_parameters(chunk_target).cut_max))

\* C4 witness: a returned run whose first window failed without an
\* authorization error and got fallback Cuts, and whose second window was
\* labelled by the oracle.
C4_Witness ==
    /\ Returned /\ Len(calls) >= 2
    /\ calls[1].kind = "error" /\ FallbackCutsOf(1) # <<>>
    /\ ~Failed(calls[2]) /\ CutsOf(2) # <<>>

\* C5: every emitted Cut, on the oracle path and on the fallback path, has
\* window_start <= start <= end <= window_end for the window that produced it.
C5_SpanWithinWindow ==
    \A k \in 1..Len(panels) :
        LET ch == chunks[panels[k].chunk]
            span == panels[k].source_span
        IN ch.start <= span.start /\ span.start <= span.end /\ span.end <= ch.end

\* the number an identifier "c" + digits stands for
ValueOf(d) == CHOOSE n \in 0..9 : Digits[n + 1] = d

RECURSIVE NumberOf(_)
NumberOf(ds) ==
    IF ds = <<>> THEN 0 ELSE 10 * NumberOf(SubSeq(ds, 1, Len(ds) - 1)) + ValueOf(ds[Len(ds)])

\* C6: the k-th emitted Cut carries identifier number k, written "c" and four
\* digits, so identifiers increase without gaps or repeats; and the Cuts of a
\* window come before the Cuts of every later window.
C6_IdentifiersCountEmission ==
    /\ cut_counter = Len(panels) + 1
    /\ \A k \in 1..Len(panels) :
          /\ Len(panels[k].id) = 5 /\ panels[k].id[1] = "c"
          /\ NumberOf(Tail(panels[k].id)) = k
    /\ \A j, k \in 1..Len(panels) : j < k => panels[j].chunk <= panels[k].chunk

\* C6 witness: a returned run with oracle Cuts and fallback Cuts from two
\* windows.
C6_Witness ==
    /\ Returned /\ Len(panels) >= 3
    /\ \E j, k \in 1..Len(panels) :
          /\ panels[j].path = "oracle" /\ panels[k].path = "fallback"
          /\ panels[j].chunk # panels[k].chunk

\* C7: for a window whose call failed, whose response could not be parsed or
\* whose array was empty or invalid, the fallback Cuts are, in order, one per
\* segment of the fallback splitter on the window's text, each "narration" /
\* "unknown" with the segment's text and the span of the segment's local
\* offsets plus the window's start.
C7_FallbackCutPerSegment ==
    \A k \in 1..Len(calls) :
        Failed(calls[k]) =>
            LET segments == split_fallback_chunk(ChunkText(k),
                                derive_cut_parameters(chunk_target).cut_min,
                                derive_cut_parameters(chunk_target).cut_max)
                cuts == FallbackCutsOf(k)
            IN /\ Len(cuts) = Len(segments)
               /\ \A j \in 1..Len(cuts) :
                     /\ cuts[j].type = "narration" /\ cuts[j].speaker = Unknown
                     /\ cuts[j].text = segments[j][3]
                     /\ cuts[j].source_span.start = chunks[k].start + segments[j][1]
                     /\ cuts[j].source_span.end = chunks[k].start + segments[j][2]

\* C7 witness: a returned run in which a failed window gave two fallback Cuts
\* and a failed window that starts after offset 0 gave a fallback Cut that
\* ends before the window does.
C7_Witness ==
    /\ Returned
    /\ \E k \in 1..Len(calls) : Failed(calls[k]) /\ Len(FallbackCutsOf(k)) >= 2
    /\ \E k \in 1..Len(calls) :
          /\ Failed(calls[k]) /\ chunks[k].start > 0 /\ FallbackCutsOf(k) # <<>>
          /\ FallbackCutsOf(k)[1].source_span.end < chunks[k].end

\* C8: every window whose text has a non-whitespace character contributes at
\* least one Cut, whatever the oracle returned for it.
C8_NoWindowDropped ==
    \A k \in 1..Len(calls) : HasSolid(ChunkText(k)) => CutsOf(k) # <<>>

OracleCuts == {k \in 1..Len(panels) : panels[k].path = "oracle"}

\* C12: no two emitted Cuts have both the same text and the same absolute
\* span, even when two consecutive windows yield the same segment from the
\* region they share.
C12_NoDuplicateCuts ==
    \A j, k \in 1..Len(panels) :
        (j # k /\ panels[j].text = panels[k].text) =>
            panels[j].source_span # panels[k].source_span

\* case and whitespace folding of a name
Folded(name) == Lower(Strip(name))

\* the names of a list without the empty ones and without those whose folding
\* was seen before, each in its first-seen spelling
RECURSIVE FirstSeen(_, _)
FirstSeen(names, kept) ==
    IF names = <<>> THEN kept
    ELSE LET name == Strip(Head(names))
         IN IF name = <<>> \/ \E j \in 1..Len(kept) : Folded(kept[j]) = Folded(name)
            THEN FirstSeen(Tail(names), kept)
            ELSE FirstSeen(Tail(names), Append(kept, name))

\* C13: the speaker list of every Cut produced from an oracle record holds no
\* empty name and no two names that are equal after case and whitespace
\* folding; it is the reported names in first-seen order, each duplicate in
\* its first-seen spelling only.
C13_SpeakersUniqueByFolding ==
    \A k \in OracleCuts :
        LET names == panels[k].speakers
        IN /\ \A j \in 1..Len(names) : names[j] # <<>>
           /\ \A i, j \in 1..Len(names) : i # j => Folded(names[i]) # Folded(names[j])
           /\ names = FirstSeen(panels[k].reported, <<>>)

CutTypes == {"dialogue", "narration", "monologue", "sfx", "stage_direction", "unknown"}

\* C14: the classification tag of every emitted Cut is a member of the closed
\* set, whatever the oracle record carries in its type field.
C14_TypeInClosedSet ==
    \A k \in 1..Len(panels) : panels[k].type \in CutTypes

----------------------------------------------------------------------------
(* Claims about generate_character_graph_dot (GraphSpec) *)

GraphReturned == grapher.pc = "returned"

\* the relationship records of all windows whose extraction was usable, with
\* names and labels trimmed
ReportedRelationships ==
    {[source |-> Strip(r.source), target |-> Strip(r.target), label |-> Strip(r.label)] :
        r \in UNION {{grapher.log[w].relationships[j] :
                         j \in 1..Len(grapher.log[w].relationships)} :
                     w \in {x \in 1..Len(grapher.log) : grapher.log[x].kind = "data"}}}

\* the ordered pairs that are to get an edge: both names given and not equal
\* ignoring letter case
ReportedPairs ==
    {<<r.source, r.target>> :
        r \in {x \in ReportedRelationships :
                  x.source # <<>> /\ x.target # <<>> /\ Lower(x.source) # Lower(x.target)}}

EdgesOf(pair) == {e \in grapher.result.edges : e.source = pair[1] /\ e.target = pair[2]}

\* the edges are one per reported pair and no other, none joins a name to
\* itself, and the labels of each are LabelsOf of its pair
EdgesMerge(LabelsOf(_)) ==
    /\ \A pair \in ReportedPairs :
          /\ Cardinality(EdgesOf(pair)) = 1
          /\ \A e \in EdgesOf(pair) : e.labels = LabelsOf(pair)
    /\ \A e \in grapher.result.edges :
          /\ <<e.source, e.target>> \in ReportedPairs
          /\ Lower(e.source) # Lower(e.target)

\* the labels reported for a pair, as they were reported
ReportedLabels(pair) ==
    {r.label : r \in {x \in ReportedRelationships :
                         x.source = pair[1] /\ x.target = pair[2]}}

\* the labels reported for a pair, a blank label counting as the default label
ReportedOrDefaultLabels(pair) ==
    {IF label = <<>> THEN DefaultLabel ELSE label : label \in ReportedLabels(pair)}

\* C15 as claimed: the returned graph holds exactly one edge per reported
\* ordered (source, target) pair, whose label set is the union of the labels
\* reported for that pair in any window, and no edge whose source and target
\* are equal ignoring letter case.
C15_EdgeLabelsAreReportedLabels ==
    GraphReturned => EdgesMerge(ReportedLabels)

\* C15 amended: as above, a blank or missing label counting as the default
\* label "関係".
C15_EdgeLabelsWithDefault ==
    GraphReturned => EdgesMerge(ReportedOrDefaultLabels)

\* C15 witness: two windows reported the same pair with different labels and
\* the returned graph has one edge with both labels.
C15_Witness ==
    /\ GraphReturned /\ Len(grapher.log) = 2
    /\ \A w \in 1..2 : Len(grapher.log[w].relationships) = 1
    /\ \E e \in grapher.result.edges : Cardinality(e.labels) = 2

\* the descriptions reported for a name in any window, trimmed
ReportedDescriptions(name) ==
    {Strip(c.description) :
        c \in {x \in UNION {{grapher.log[w].characters[j] :
                                 j \in 1..Len(grapher.log[w].characters)} :
                             w \in {y \in 1..Len(grapher.log) : grapher.log[y].kind = "data"}} :
                  Strip(x.name) = name}}

\* C16: after all windows the description stored for a character name is the
\* longest non-empty description reported for that name in any window.
C16_LongestDescriptionWins ==
    GraphReturned =>
        \A name \in grapher.result.node_names :
            \A desc \in ReportedDescriptions(name) :
                /\ Len(desc) <= Len(grapher.result.descriptions[name])
                /\ grapher.result.descriptions[name] \in ReportedDescriptions(name) \cup {<<>>}

\* C17: names that differ only in letter case give a single node.
C17_OneNodePerFoldedName ==
    GraphReturned =>
        \A n1, n2 \in grapher.result.node_names : Lower(n1) = Lower(n2) => n1 = n2

\* the nodes and edges after merging the usable extractions among the first n
RECURSIVE MergedUpTo(_)
MergedUpTo(n) ==
    IF n = 0 THEN [nodes |-> <<>>, edges |-> <<>>]
    ELSE LET before == MergedUpTo(n - 1)
             ext == grapher.log[n]
         IN IF ext.kind # "data" THEN before
            ELSE [nodes |-> AddCharacters(before.nodes, ext.characters),
                  edges |-> AddRelationships(before.edges, ext.relationships)]

\* C18: a window whose extraction is absent or failed (the call raises, the
\* response is no object, or a field is not a list of records) is skipped:
\* the run does not end with an error, and the graph it returns merges the
\* extractions of all other windows.
C18_FailedWindowSkipped ==
    /\ grapher.pc # "raised"
    /\ GraphReturned /\ grapher.chunks # <<>> =>
          /\ Len(grapher.log) = Len(grapher.chunks)
          /\ LET merged == MergedUpTo(Len(grapher.log))
             IN grapher.result =
                    IF merged.nodes = <<>> /\ merged.edges = <<>> THEN EmptyGraph
                    ELSE GraphResult(merged.nodes, merged.edges)

----------------------------------------------------------------------------
(* Claims about both pipelines (Spec) *)

\* C19: for an empty source text the windowing gives no window, the cut
\* pipeline makes no oracle call and returns an empty Cut list, and the graph
\* pipeline returns the empty graph; neither raises.
C19_EmptyTextEmptyResult ==
    full_text = <<>> =>
        /\ chunks = <<>> /\ calls = <<>> /\ panels = <<>>
        /\ pc \in {"start", "loop", "returned", "idle"}
        /\ pc = "loop" => idx = Len(chunks)
        /\ grapher.pc \in {"start", "returned", "idle"}
        /\ grapher.pc = "returned" => grapher.result = EmptyGraph /\ grapher.log = <<>>

\* C19 witness: the cut pipeline has returned for the empty text.
C19_Witness ==
    /\ full_text = <<>> /\ Returned /\ panels = <<>> /\ calls = <<>>

----------------------------------------------------------------------------
(* Claims about build_character_brief (BriefSpec) *)

BriefDone == briefer.pc = "done"

\* the Cuts of the list that reference the name
MatchingCuts ==
    {briefer.panels[j] : j \in {i \in 1..Len(briefer.panels) :
                                   Matches(Lower(briefer.name), briefer.panels[i])}}

ReturnedCuts == {briefer.result.panels[j] : j \in 1..Len(briefer.result.panels)}

\* C20: build_character_brief returns at most limit Cuts, each at most once,
\* in non-decreasing order of span start; they are the matching Cuts with the
\* smallest span starts, and count is the number of all matching Cuts.
C20_BriefSortedAndCapped ==
    BriefDone =>
        LET out == briefer.result.panels
        IN /\ Len(out) <= briefer.limit
           /\ \A i, j \in 1..Len(out) : i # j => out[i] # out[j]
           /\ \A i, j \in 1..Len(out) :
                 i < j => out[i].source_span.start <= out[j].source_span.start
           /\ ReturnedCuts \subseteq MatchingCuts
           /\ Len(out) = Min(briefer.limit, Cardinality(MatchingCuts))
           /\ \A q \in ReturnedCuts : \A p \in MatchingCuts \ ReturnedCuts :
                 q.source_span.start <= p.source_span.start
           /\ briefer.result.count = Cardinality(MatchingCuts)

\* C20 witness: a call on a list that holds a Cut twice and has more matching
\* Cuts than limit returned limit >= 1 Cuts, the first of which is not the
\* first matching Cut of the list.
C20_Witness ==
    /\ BriefDone /\ briefer.limit >= 1
    /\ Cardinality(MatchingCuts) > briefer.limit
    /\ \E i, j \in 1..Len(briefer.panels) : i # j /\ briefer.panels[i] = briefer.panels[j]
    /\ Len(briefer.result.panels) = briefer.limit
    /\ briefer.result.panels[1] # briefer.panels[1]
    /\ briefer.panels[1] \in MatchingCuts

\* name is a case-insensitive substring of the Cut's speaker, of its text, or
\* of a name of its entity list
References(name, p) ==
    \/ IsSubstring(Lower(name), Lower(p.speaker))
    \/ IsSubstring(Lower(name), Lower(p.text))
    \/ \E j \in 1..Len(p.entities) : IsSubstring(Lower(name), Lower(p.entities[j]))

\* C21: a Cut is selected by build_character_brief(name, ...) if and only if
\* name is a case-insensitive substring of the Cut's speaker, of its text, or
\* of at least one name of its entity list.
C21_SelectedIffReferenced ==
    BriefDone =>
        \A j \in 1..Len(briefer.panels) :
            (\E h \in 1..Len(briefer.hits) : briefer.hits[h] = briefer.panels[j])
                <=> References(briefer.name, briefer.panels[j])

----------------------------------------------------------------------------
(* Claims about derive_cut_parameters, checked under DeriveSpec *)

DeriveDone == deriver.pc = "done"

\* floor(target * num / den)
FloorOf(target, num, den) == (target * num) \div den

\* the four bounds of the ratio policy applied to target
RatioPolicy(target) ==
    LET ideal_min == Max(50, FloorOf(target, 3, 4))
        ideal_max == Max(ideal_min + 30, FloorOf(target, 5, 4))
        hard_min == Max(40, FloorOf(target, 3, 5))
        hard_max == Max(hard_min + 50, FloorOf(target, 8, 5))
    IN [cut_min |-> hard_min, cut_max |-> hard_max,
        target_min |-> ideal_min, target_max |-> ideal_max]

\* C22 as stated: for every integer target, derive_cut_parameters returns
\* ideal-min = max(50, floor(0.75 x target)), ideal-max = max(ideal-min + 30,
\* floor(1.25 x target)), hard-min = max(40, floor(0.6 x target)) and
\* hard-max = max(hard-min + 50, floor(1.6 x target)), computed from the
\* target exactly as given.
C22_PolicyOnGivenTarget ==
    DeriveDone => deriver.result = RatioPolicy(deriver.target)

\* C22 amended: the four bounds are those of the ratio policy applied to
\* max(80, target).
C22_PolicyOnClampedTarget ==
    DeriveDone =>
        deriver.result = RatioPolicy(IF deriver.target < 80 THEN 80 ELSE deriver.target)

\* a target below 80 whose bounds are those of target 80
C22_Witness ==
    /\ DeriveDone /\ deriver.target < 80
    /\ deriver.result = [cut_min |-> 48, cut_max |-> 128,
                         target_min |-> 60, target_max |-> 100]

\* C30: for every integer target the four bounds are consistently ordered,
\* 40 <= hard-min <= ideal-min < ideal-max <= hard-max and
\* hard-max >= hard-min + 50, so that 1 <= min_len < max_len for the splitter.
C30_BoundsOrdered ==
    DeriveDone =>
        LET r == deriver.result
        IN /\ 40 <= r.cut_min
           /\ r.cut_min <= r.target_min
           /\ r.target_min < r.target_max
           /\ r.target_max <= r.cut_max
           /\ r.cut_max >= r.cut_min + 50
           /\ 1 <= r.cut_min /\ r.cut_min < r.cut_max

\* bounds derived from a target above the clamp
C30_Witness ==
    /\ DeriveDone
    /\ deriver.target > 80
    /\ deriver.result.cut_min > 48
    /\ deriver.result.target_min > deriver.result.cut_min

----------------------------------------------------------------------------
(* Claims about the two parsers, checked under ParseSpec *)

ParseDone == parser.pc = "done"

\* what the called parser expects: the arrays of objects, or the objects
ExpectedBodies ==
    IF parser.fn = "_safe_json_loads" THEN ArraysOfObjects ELSE Objects

ExpectedKind == IF parser.fn = "_safe_json_loads" THEN "list" ELSE "dict"

\* the fence is absent or complete
FenceBalanced == (parser.opening = <<>>) <=> (parser.closing = <<>>)

\* C23: for a response that is one well-formed JSON array of objects (for
\* _safe_json_loads) or one well-formed JSON object (for _safe_json_object),
\* optionally in a code fence and with prose before and after it, the parser
\* returns the decoded value; a parser that decodes nothing of the expected
\* shape returns None, and it never raises.
C23_ParsersTolerateFenceAndProse ==
    ParseDone =>
        /\ (parser.body \in ExpectedBodies /\ FenceBalanced)
               => parser.result = json_loads(parser.body).value
        /\ parser.result # NoData => parser.result.kind = ExpectedKind

----------------------------------------------------------------------------
(* Further claims about llm_cut_and_label_with_params (Spec) *)

\* C24: each window takes exactly one of the two paths: its Cuts are either
\* all built from oracle records or all fallback segments, also when a later
\* record of a parsed array is invalid after earlier records of the same
\* array were turned into Cuts.
C24_OnePathPerWindow ==
    \A k \in 1..Len(calls) :
        \/ \A j \in 1..Len(CutsOf(k)) : CutsOf(k)[j].path = "oracle"
        \/ \A j \in 1..Len(CutsOf(k)) : CutsOf(k)[j].path = "fallback"

----------------------------------------------------------------------------
(* Further claims about chunk_for_llm (ChunkSpec) *)

\* C25: a window's end is moved back to the last paragraph break only when
\* the window is not the final one (its proposed end min(offset + size, n) is
\* smaller than n) and the break lies at or after 50% of size from the window
\* start; a window whose proposed end equals n always ends at n.
C25_SnapOnlyBeforeFinalWindow ==
    \A k \in 1..Len(chunker.cuts) :
        LET c == chunker.cuts[k]
            n == Len(chunker.t)
            proposed == Min(c.start + chunker.window, n)
            brk == RFindParagraph(Slice(chunker.t, c.start, proposed))
        IN /\ proposed = n => c.end = n
           /\ c.end # proposed =>
                 /\ proposed < n
                 /\ brk >= chunker.window \div 2
                 /\ c.end = c.start + brk

----------------------------------------------------------------------------
(* Further claims about _split_fallback_chunk (SplitSpec) *)

\* the candidate segment of the iteration about to run
CandidateSegment ==
    Slice(splitter.normalized, splitter.cursor, splitter.cursor + splitter.cut_max)

\* the places of a text where a paragraph break, a full stop or a comma starts
Boundaries(win) ==
    {c \in 0..(Len(win) - 1) :
        \/ win[c + 1] \in {KUTEN, TOUTEN}
        \/ c + 2 <= Len(win) /\ win[c + 1] = LF /\ win[c + 2] = LF}

\* the number of characters of the boundary that starts at c
BoundaryLen(win, c) == IF win[c + 1] = LF THEN 2 ELSE 1

\* an iteration is about to run with 1 <= min_len <= max_len and
\* cursor + max_len before the end of the text
SplitsInside ==
    /\ splitter.pc = "loop"
    /\ 1 <= splitter.cut_min /\ splitter.cut_min <= splitter.cut_max
    /\ splitter.cursor + splitter.cut_max < Len(splitter.normalized)

\* the length of the untrimmed segment the step cuts
SegmentLen == splitter'.cursor - splitter.cursor

\* C26 as stated: the segment ends immediately after the rightmost paragraph
\* break, full stop or comma of the candidate segment that leaves at least
\* min_len characters; without such a boundary it is max_len characters long;
\* hence its length lies between min_len and max_len.
C26_EndsAfterBoundary ==
    [][SplitsInside =>
          LET win == CandidateSegment
              usable == {c \in Boundaries(win) :
                            c + BoundaryLen(win, c) >= splitter.cut_min}
          IN /\ usable # {} =>
                   SegmentLen = MaxOf(usable) + BoundaryLen(win, MaxOf(usable))
             /\ usable = {} => SegmentLen = splitter.cut_max
             /\ splitter.cut_min <= SegmentLen /\ SegmentLen <= splitter.cut_max]_vars

\* C26 amended: the segment ends after the first character of the rightmost
\* boundary (after the full stop or the comma, after the first newline of a
\* paragraph break) that leaves at least min_len characters; without such a
\* boundary it is max_len characters long; its length lies between min_len
\* and max_len.
C26_EndsAfterFirstBoundaryCharacter ==
    [][SplitsInside =>
          LET win == CandidateSegment
              usable == {c \in Boundaries(win) : c + 1 >= splitter.cut_min}
          IN /\ usable # {} => SegmentLen = MaxOf(usable) + 1
             /\ usable = {} => SegmentLen = splitter.cut_max
             /\ splitter.cut_min <= SegmentLen /\ SegmentLen <= splitter.cut_max]_vars

\* the first segment was cut short of max_len, between the two newlines of a
\* paragraph break
C26_Witness ==
    /\ splitter.pc = "loop" /\ splitter.iterations = 1
    /\ 1 <= splitter.cut_min /\ splitter.cut_min <= splitter.cut_max
    /\ splitter.cut_max < Len(splitter.normalized)
    /\ splitter.cursor < splitter.cut_max
    /\ splitter.normalized[splitter.cursor] = LF
    /\ splitter.normalized[splitter.cursor + 1] = LF

\* the hard maximum of the run
HardMax == derive_cut_parameters(chunk_target).cut_max

\* the first n characters of a text
FirstChars(text, n) == [k \in 1..Min(n, Len(text)) |-> text[k]]

\* the stripped text of a record of the answer of window k of which c holds
\* the first HardMax characters
Sources(c) ==
    {j \in 1..Len(calls[c.chunk].items) :
        /\ calls[c.chunk].items[j].dict
        /\ c.text = FirstChars(Strip(calls[c.chunk].items[j].text), HardMax)}

\* C27: every emitted Cut, on both paths, has a text of at most hard-max
\* characters; an oracle record with a longer text is reduced to exactly its
\* first hard-max characters, and the checksum is computed from the final text.
C27_TextWithinHardMax ==
    \A k \in 1..Len(panels) :
        /\ Len(panels[k].text) <= HardMax
        /\ panels[k].checksum = <<"sha1", panels[k].text>>
        /\ panels[k].path = "oracle" => Sources(panels[k]) # {}

\* a run that emitted a truncated oracle Cut and a fallback Cut of hard-max
\* characters
C27_Witness ==
    /\ Returned
    /\ \E k \in 1..Len(panels) :
          /\ panels[k].path = "oracle"
          /\ Len(panels[k].text) = HardMax
          /\ \E j \in Sources(panels[k]) :
                Len(Strip(calls[panels[k].chunk].items[j].text)) > HardMax
    /\ \E k \in 1..Len(panels) :
          panels[k].path = "fallback" /\ Len(panels[k].text) = HardMax

\* the records of the answer of window k that were turned into Cuts: those
\* before the first record that raises, without the ones with an empty text
EmittingRecords(k) ==
    LET items == calls[k].items
        bad == {j \in 1..Len(items) : ItemRaises(items[j])}
        stop == IF bad = {} THEN Len(items) + 1
                ELSE CHOOSE j \in bad : \A i \in bad : j <= i
    IN SelectSeq(SubSeq(items, 1, stop - 1), LAMBDA item : Strip(item.text) # <<>>)

OracleCutsOf(k) == SelectSeq(panels, LAMBDA c : c.chunk = k /\ c.path = "oracle")

\* the record reports a negative local start and a local end e with
\* 0 < e <= size
StartsBeforeWindow(item, size) ==
    /\ item.start \notin {Missing, NonNumeric} /\ item.start.value < 0
    /\ item.end \notin {Missing, NonNumeric}
    /\ 0 < item.end.value /\ item.end.value <= size

\* C28: an oracle record whose reported local start is negative and whose
\* reported local end e satisfies 0 < e <= window size gives a Cut with the
\* absolute span {window_start, window_start + e}.
C28_NegativeStartClampedToWindowStart ==
    \A k \in 1..Len(calls) :
        \A j \in 1..Len(OracleCutsOf(k)) :
            LET item == EmittingRecords(k)[j]
                ch == chunks[k]
            IN StartsBeforeWindow(item, ch.end - ch.start) =>
                   OracleCutsOf(k)[j].source_span =
                       [start |-> ch.start, end |-> ch.start + item.end.value]

\* such a record was answered for a window that does not start the text
C28_Witness ==
    /\ Returned
    /\ \E k \in 1..Len(calls) :
          /\ chunks[k].start > 0
          /\ \E j \in 1..Len(OracleCutsOf(k)) :
                /\ StartsBeforeWindow(EmittingRecords(k)[j], chunks[k].end - chunks[k].start)
                /\ OracleCutsOf(k)[j].source_span.start = chunks[k].start
                /\ OracleCutsOf(k)[j].source_span.end > chunks[k].start

----------------------------------------------------------------------------
(* Claims about _normalize_speaker, checked under NormalizeSpec *)

NormalizeDone == normalizer.pc = "done"

\* the roster names: the canonical names of the name_map the call receives
Roster == {normalizer.name_map[i].canonical : i \in 1..Len(normalizer.name_map)}

\* C29: _normalize_speaker applies its rules in strict order: a roster name
\* with the speaker's whitespace-removed, lower-cased form is returned, even
\* when another roster name is a substring of it; otherwise a roster name
\* whose normalised form contains, or is contained in, the speaker's;
\* otherwise the speaker, trimmed.
C29_RulesInStrictOrder ==
    NormalizeDone =>
        LET norm == normalize_token(normalizer.speaker)
            equal == {name \in Roster : normalize_token(name) = norm}
            related == {name \in Roster :
                           \/ IsSubstring(normalize_token(name), norm)
                           \/ IsSubstring(norm, normalize_token(name))}
        IN IF equal # {} THEN normalizer.result \in equal
           ELSE IF related # {} THEN normalizer.result \in related
           ELSE normalizer.result = Strip(normalizer.speaker)

\* the roster lists a proper part of the speaker's name before the name itself
C29_Witness ==
    /\ NormalizeDone /\ Len(normalizer.names) = 2
    /\ LET norm == normalize_token(normalizer.speaker)
           first == normalize_token(normalizer.names[1])
       IN /\ first # <<>> /\ first # norm /\ IsSubstring(first, norm)
          /\ normalize_token(normalizer.names[2]) = norm
    /\ normalizer.result = normalizer.names[2]

====
